---------------------------- MODULE Spec2Model ----------------------------
(***************************************************************************)
(* A model of SWRDataSource (src/src/index.ts): stale-while-revalidate     *)
(* caching over a key-value store with a process-wide inflight deduper.    *)
(*                                                                         *)
(* One step of the model is one uninterrupted run of JavaScript code: the  *)
(* code between two awaits of doSWR / revalidate, a setImmediate callback, *)
(* or the settlement of a producer promise.  The value a producer          *)
(* invocation resolves with, and the error it rejects with, are both       *)
(* identified by the index of the invocation in inv.                       *)
(***************************************************************************)
EXTENDS Integers, Sequences, FiniteSets, TLC

\* ---------------------------------------------------------------- bounds
MaxReq == 3          \* doSWR calls per behaviour
MaxTick == 2         \* clock ticks per behaviour
TickMs == 1000       \* milliseconds the clock advances per tick
MaxTtlOpt == 1       \* largest ttlMaxAge / ttlSWR option passed (seconds)
MaxArg == 2          \* argument values are 1..MaxArg

\* ------------------------------------------------------ program constants
MsPerSec == 1000           \* index.ts:141  ttlMaxAge * 1000
DefaultTtlSWR == 3600      \* index.ts:44   opts?.ttlSWR ?? 3600
DefaultTtlMaxAge == 0      \* index.ts:45   opts?.ttlMaxAge ?? 0

\* undefined: an absent option, an absent store entry
Undefined == << >>
BaseName == "SWRDataSource"    \* SWRDataSource.name

Reqs == 1..MaxReq
\* the calls made: (constructor.name, propertyKey) of a decorated method and
\* its argument list.  Two classes share a method name, one class has two
\* methods, one method is called with two argument lists.
FirstCall == [ident |-> <<"TestClassC", "testMethod">>, args |-> <<1>>]
Calls == { FirstCall,
           [ident |-> <<"TestClassD", "testMethod">>, args |-> <<1>>],
           [ident |-> <<"TestClassD", "testMethodB">>, args |-> <<1>>],
           [ident |-> <<"TestClassC", "testMethod">>, args |-> <<MaxArg>>] }
\* opts.ttlMaxAge / opts.ttlSWR: absent, or a number of seconds
TtlOpts == {Undefined} \cup { <<s>> : s \in 0..MaxTtlOpt }

VARIABLES
  clock,            \* ticks elapsed; Date.now() = clock * TickMs
  ttlMaxAge,        \* this.ttlMaxAge (seconds)
  ttlSWR,           \* this.ttlSWR (seconds)
  cache,            \* the KeyValueCache: key -> [value, evictAt]
  inflightDeduper,  \* SWRDataSource.inflightDeduper: key -> invocation
  inv,              \* producer invocations fn(...args), in call order
  req,              \* the doSWR calls
  deferred,         \* setImmediate callbacks and the revalidate calls they make
  unhandled         \* deferred tasks whose promise rejected with no handler

vars == <<clock, ttlMaxAge, ttlSWR, cache, inflightDeduper, inv, req,
          deferred, unhandled>>

\* -------------------------------------------------------------- helpers
Now == clock * TickMs

\* obj[k] = v
Put(obj, k, v) == [x \in (DOMAIN obj) \cup {k} |-> IF x = k THEN v ELSE obj[x]]
\* delete obj[k]
Delete(obj, k) == [x \in (DOMAIN obj) \ {k} |-> obj[x]]

\* opts?.x ?? dflt
Coalesce(opt, dflt) == IF opt = Undefined THEN dflt ELSE opt[1]

\* object-hash's sha1 over the argument list: a positional digest, injective
\* on the argument lists in use
HashBase == MaxArg + 1
\* a digest that would only look at the number of arguments
Sha1OfLength(args) == Len(args)
RECURSIVE Sha1(_)
Sha1(args) ==
  IF args = <<>> THEN 0
  ELSE Sha1(SubSeq(args, 1, Len(args) - 1)) * HashBase + args[Len(args)]

\* `${SWRDataSource.name}:${this.constructor.name}:${propertyKey}:${sha1(args)}`
CacheKeyNoClass(ident, args) == <<BaseName, ident[2], Sha1(args)>>
CacheKey(ident, args) == <<BaseName, ident[1], ident[2], Sha1(args)>>

\* The values a producer resolves to, as JavaScript values [t, v]: t is the
\* type and v the value written out.  DefaultResult is the string the tests'
\* producers return; Unsettled stands for a promise without a value.
DefaultResult == [t |-> "string", v |-> "foo-a"]
Unsettled == [t |-> "none", v |-> ""]
JsValues ==
  { DefaultResult,
    [t |-> "number", v |-> "2"],
    [t |-> "number", v |-> "NaN"],
    [t |-> "Date", v |-> "1970-01-01T00:00:00.000Z"] }

\* the value of result i: what invocation i resolved to; a result of an
\* earlier run of the process is the default one
ResultValue(i) ==
  IF i \in 1..Len(inv) THEN inv[i].value ELSE DefaultResult

\* JSON.stringify of the `item` property: the JSON text [lit, txt] with lit
\* the kind of literal.  A string is quoted, a finite number is written out,
\* NaN becomes null, a Date becomes the string of its toJSON(), and a
\* property without a value is left out of the object.
JsonStringifyValueByString(x) ==
  CASE x.t \in {"string", "number", "Date"} -> [lit |-> "string", txt |-> x.v]
    [] OTHER -> [lit |-> "absent", txt |-> ""]
JsonStringifyValue(x) ==
  CASE x.t = "string" -> [lit |-> "string", txt |-> x.v]
    [] x.t = "number" /\ x.v = "NaN" -> [lit |-> "null", txt |-> ""]
    [] x.t = "number" -> [lit |-> "number", txt |-> x.v]
    [] x.t = "Date" -> [lit |-> "string", txt |-> x.v]
    [] OTHER -> [lit |-> "absent", txt |-> ""]
\* JSON.parse of that text: a string literal gives a string, a number
\* literal a number, null gives null, a missing property reads as undefined
JsonParseValue(j) ==
  CASE j.lit = "string" -> [t |-> "string", v |-> j.txt]
    [] j.lit = "number" -> [t |-> "number", v |-> j.txt]
    [] j.lit = "null" -> [t |-> "null", v |-> ""]
    [] OTHER -> [t |-> "undefined", v |-> ""]

\* JSON.stringify of a CacheItem {exp, item} and JSON.parse of it; item.item
\* names the result and the text carries its value
Stringify(item) ==
  <<"exp", item.exp, "item", item.item, JsonStringifyValue(ResultValue(item.item))>>
Parse(str) == [exp |-> str[2], item |-> str[4], value |-> JsonParseValue(str[5])]

\* KeyValueCache.get: the stored string, undefined once the ttl has run out
CacheGet(k) ==
  IF k \in DOMAIN cache /\ Now < cache[k].evictAt THEN cache[k].value
  ELSE Undefined
\* KeyValueCache.set(key, value, {ttl}) with ttl in seconds
CacheSet(k, str, ttl) ==
  Put(cache, k, [value |-> str, evictAt |-> Now + ttl * MsPerSec])

\* the string last written under k when its item is past its stale window
\* (ttlSWR seconds after item.exp), undefined otherwise; recorded with each
\* request for the properties, never read by the program
ExpiredEntry(k) ==
  IF k \in DOMAIN cache
     /\ Now >= Parse(cache[k].value).exp + ttlSWR * MsPerSec
  THEN cache[k].value
  ELSE Undefined

\* Date.now() >= item.exp
IsStaleAlways(item) == TRUE
IsStaleStrict(item) == Now > item.exp
IsStale(item) == Now >= item.exp

\* the CacheItem revalidate builds from a producer result
NewItemNoWindow(result) == [exp |-> Now, item |-> result]
NewItemSeconds(result) == [exp |-> Now + ttlMaxAge, item |-> result]
NewItem(result) == [exp |-> Now + ttlMaxAge * MsPerSec, item |-> result]
\* the ttl revalidate passes to cache.set
SetTtlTwice == 2 * (ttlMaxAge + ttlSWR)
SetTtl == ttlMaxAge + ttlSWR

\* SWRDataSource.inflightDeduper[cacheKey] = promise
RegisterNothing(k, p) == inflightDeduper
Register(k, p) == Put(inflightDeduper, k, p)

\* what awaiting a settled invocation gives: its value, or its error thrown
AwaitSwallow(i) == [kind |-> "value", by |-> i]
Await(i) ==
  IF inv[i].state = "resolved" THEN [kind |-> "value", by |-> i]
  ELSE [kind |-> "error", by |-> i]

NoResult == [kind |-> "none", by |-> 0]
SettledOnlyResolved(i) == inv[i].state = "resolved"
SettledOrTimedOut(i) == inv[i].state \in {"resolved", "rejected"} \/ clock >= 1
Settled(i) == inv[i].state \in {"resolved", "rejected"}
Rejected == {i \in 1..Len(inv) : inv[i].state = "rejected"}

IdleReq ==
  [pc |-> "idle", ident |-> <<>>, args |-> <<>>, key |-> <<>>,
   cached |-> Undefined, expired |-> Undefined, path |-> "none", role |-> "none",
   waitOn |-> 0, result |-> NoResult, rejectedAtCall |-> {}]

\* ----------------------------------------------------------------- Init
\* new SubClass(opts); initialize({cache}): every instance shares one store
Init ==
  /\ clock = 0
  /\ \E o \in TtlOpts : ttlMaxAge = Coalesce(o, DefaultTtlMaxAge)
  /\ \E o \in TtlOpts : ttlSWR = Coalesce(o, DefaultTtlSWR)
  /\ cache = << >>
  /\ inflightDeduper = << >>
  /\ inv = << >>
  /\ req = [r \in Reqs |-> IdleReq]
  /\ deferred = << >>
  /\ unhandled = {}

\* -------------------------------------------------------------- actions
\* time passes between two runs of code
Tick ==
  /\ clock < MaxTick
  /\ clock' = clock + 1
  /\ UNCHANGED <<ttlMaxAge, ttlSWR, cache, inflightDeduper, inv, req,
                 deferred, unhandled>>

\* doSWR up to `await this.cache.get(cacheKey)`.  Requests are numbered in
\* call order and the first one made is FirstCall.
Call(r, ident, args) ==
  /\ req[r].pc = "idle"
  /\ \A q \in Reqs : q < r => req[q].pc # "idle"
  /\ r = 1 => [ident |-> ident, args |-> args] = FirstCall
  /\ LET k == CacheKey(ident, args) IN
     req' = [req EXCEPT ![r] =
               [@ EXCEPT !.pc = "get", !.ident = ident, !.args = args,
                         !.key = k, !.cached = CacheGet(k),
                         !.expired = ExpiredEntry(k),
                         !.rejectedAtCall = Rejected]]
  /\ UNCHANGED <<clock, ttlMaxAge, ttlSWR, cache, inflightDeduper, inv,
                 deferred, unhandled>>

\* `const inflight = SWRDataSource.inflightDeduper[cacheKey]; if (inflight)`
HasInflightNever(k) == FALSE
HasInflight(k) == k \in DOMAIN inflightDeduper
Inflight(k) == inflightDeduper[k]

\* `const promise = fn(...args); inflightDeduper[cacheKey] = promise`: the
\* producer bound to ident is invoked for request r (from a deferred task when
\* byDeferred) and its promise is registered under k
Invoke(k, ident, args, r, byDeferred) ==
  /\ inv' = Append(inv,
       [key |-> k, ident |-> ident, args |-> args, state |-> "pending",
        value |-> Unsettled,
        creatorResumed |-> FALSE, byDeferred |-> byDeferred, origin |-> r,
        originReturned |-> req[r].pc \in {"done", "failed"}])
  /\ inflightDeduper' = Register(k, Len(inv) + 1)

\* a revalidate that would release the key without saving the result
FinishWithoutSave(i) ==
  /\ inv' = [inv EXCEPT ![i].creatorResumed = TRUE]
  /\ UNCHANGED cache
  /\ inflightDeduper' = IF Await(i).kind = "value"
                        THEN Delete(inflightDeduper, inv[i].key)
                        ELSE inflightDeduper

\* a revalidate that would save whatever the await gave, error included
FinishSaveAlways(i) ==
  /\ inv' = [inv EXCEPT ![i].creatorResumed = TRUE]
  /\ cache' = CacheSet(inv[i].key, Stringify(NewItem(i)), SetTtl)
  /\ inflightDeduper' = Delete(inflightDeduper, inv[i].key)

\* revalidate after `await promise` in the call that invoked the producer:
\* on success the item is saved and the key is released; a rejection is
\* rethrown by the await and nothing after it runs
Finish(i) ==
  LET out == Await(i) IN
  /\ inv' = [inv EXCEPT ![i].creatorResumed = TRUE]
  /\ IF out.kind = "value"
     THEN /\ cache' = CacheSet(inv[i].key, Stringify(NewItem(out.by)), SetTtl)
          /\ inflightDeduper' = Delete(inflightDeduper, inv[i].key)
     ELSE UNCHANGED <<cache, inflightDeduper>>

\* a fresh branch that would store the entry again with a new ttl
ServeFreshSliding(r) ==
  /\ req[r].pc = "get"
  /\ req[r].cached # Undefined
  /\ LET item == Parse(req[r].cached) IN
     /\ ~IsStale(item)
     /\ req' = [req EXCEPT ![r] =
                  [@ EXCEPT !.pc = "done", !.path = "fresh",
                            !.result = [kind |-> "value", by |-> item.item]]]
  /\ cache' = CacheSet(req[r].key, req[r].cached, SetTtl)
  /\ UNCHANGED <<clock, ttlMaxAge, ttlSWR, inflightDeduper, inv,
                 deferred, unhandled>>

\* doSWR after the store answered, entry found and fresh: return item.item
ServeFresh(r) ==
  /\ req[r].pc = "get"
  /\ req[r].cached # Undefined
  /\ LET item == Parse(req[r].cached) IN
     /\ ~IsStale(item)
     /\ req' = [req EXCEPT ![r] =
                  [@ EXCEPT !.pc = "done", !.path = "fresh",
                            !.result = [kind |-> "value", by |-> item.item]]]
  /\ UNCHANGED <<clock, ttlMaxAge, ttlSWR, cache, inflightDeduper, inv,
                 deferred, unhandled>>

\* a stale branch that would revalidate on the request's own call stack
ServeStaleInline(r) ==
  /\ req[r].pc = "get"
  /\ req[r].cached # Undefined
  /\ IsStale(Parse(req[r].cached))
  /\ IF HasInflight(req[r].key)
     THEN /\ req' = [req EXCEPT ![r] =
                       [@ EXCEPT !.pc = "wait", !.path = "stale",
                                 !.role = "joiner",
                                 !.waitOn = Inflight(req[r].key)]]
          /\ UNCHANGED <<inv, inflightDeduper>>
     ELSE /\ req' = [req EXCEPT ![r] =
                       [@ EXCEPT !.pc = "wait", !.path = "stale",
                                 !.role = "creator", !.waitOn = Len(inv) + 1]]
          /\ Invoke(req[r].key, req[r].ident, req[r].args, r, TRUE)
  /\ UNCHANGED <<clock, ttlMaxAge, ttlSWR, cache, deferred, unhandled>>

\* doSWR after the store answered, entry found and stale:
\* setImmediate(() => this.revalidate(cacheKey, fn, ...args)); return item.item
ServeStale(r) ==
  /\ req[r].pc = "get"
  /\ req[r].cached # Undefined
  /\ LET item == Parse(req[r].cached) IN
     /\ IsStale(item)
     /\ req' = [req EXCEPT ![r] =
                  [@ EXCEPT !.pc = "done", !.path = "stale",
                            !.result = [kind |-> "value", by |-> item.item]]]
  /\ deferred' = Append(deferred,
       [req |-> r, key |-> req[r].key, ident |-> req[r].ident,
        args |-> req[r].args, state |-> "queued", waitOn |-> 0])
  /\ UNCHANGED <<clock, ttlMaxAge, ttlSWR, cache, inflightDeduper, inv,
                 unhandled>>

\* doSWR after the store answered undefined; revalidate finds an inflight
\* promise and returns it
MissJoin(r) ==
  /\ req[r].pc = "get"
  /\ req[r].cached = Undefined
  /\ HasInflight(req[r].key)
  /\ req' = [req EXCEPT ![r] =
               [@ EXCEPT !.pc = "wait", !.path = "miss", !.role = "joiner",
                         !.waitOn = Inflight(req[r].key)]]
  /\ UNCHANGED <<clock, ttlMaxAge, ttlSWR, cache, inflightDeduper, inv,
                 deferred, unhandled>>

\* doSWR after the store answered undefined; revalidate finds no inflight
\* promise, invokes the producer and awaits it
MissCreate(r) ==
  /\ req[r].pc = "get"
  /\ req[r].cached = Undefined
  /\ ~HasInflight(req[r].key)
  /\ req' = [req EXCEPT ![r] =
               [@ EXCEPT !.pc = "wait", !.path = "miss", !.role = "creator",
                         !.waitOn = Len(inv) + 1]]
  /\ Invoke(req[r].key, req[r].ident, req[r].args, r, FALSE)
  /\ UNCHANGED <<clock, ttlMaxAge, ttlSWR, cache, deferred, unhandled>>

\* a queue that would run the callback scheduled last first
NextQueuedLast ==
  IF \E t \in 1..Len(deferred) : deferred[t].state = "queued"
  THEN CHOOSE t \in 1..Len(deferred) :
         /\ deferred[t].state = "queued"
         /\ \A u \in (t + 1)..Len(deferred) : deferred[u].state # "queued"
  ELSE 0

\* the setImmediate queue runs its callbacks first in, first out
NextQueued ==
  IF \E t \in 1..Len(deferred) : deferred[t].state = "queued"
  THEN CHOOSE t \in 1..Len(deferred) :
         /\ deferred[t].state = "queued"
         /\ \A u \in 1..(t - 1) : deferred[u].state # "queued"
  ELSE 0

\* a setImmediate callback: revalidate finds an inflight promise, returns it
RunImmediateJoin ==
  /\ NextQueued # 0
  /\ LET t == NextQueued IN
     /\ HasInflight(deferred[t].key)
     /\ deferred' = [deferred EXCEPT ![t].state = "joiner",
                                     ![t].waitOn = Inflight(deferred[t].key)]
  /\ UNCHANGED <<clock, ttlMaxAge, ttlSWR, cache, inflightDeduper, inv, req,
                 unhandled>>

\* a setImmediate callback: revalidate invokes the producer and awaits it
RunImmediateCreate ==
  /\ NextQueued # 0
  /\ LET t == NextQueued IN
     /\ ~HasInflight(deferred[t].key)
     /\ deferred' = [deferred EXCEPT ![t].state = "creator",
                                     ![t].waitOn = Len(inv) + 1]
     /\ Invoke(deferred[t].key, deferred[t].ident, deferred[t].args,
               deferred[t].req, TRUE)
  /\ UNCHANGED <<clock, ttlMaxAge, ttlSWR, cache, req, unhandled>>

\* the producer's promise resolves to the value v
ResolveWith(i, v) ==
  /\ inv[i].state = "pending"
  /\ inv' = [inv EXCEPT ![i].state = "resolved", ![i].value = v]
  /\ UNCHANGED <<clock, ttlMaxAge, ttlSWR, cache, inflightDeduper, req,
                 deferred, unhandled>>

\* the producer's promise resolves, to the string the tests' producers return
Resolve(i) == ResolveWith(i, DefaultResult)

\* the producer's promise rejects
Reject(i) ==
  /\ inv[i].state = "pending"
  /\ inv' = [inv EXCEPT ![i].state = "rejected"]
  /\ UNCHANGED <<clock, ttlMaxAge, ttlSWR, cache, inflightDeduper, req,
                 deferred, unhandled>>

\* MISS path, the request that invoked the producer: revalidate from
\* `await promise` to its return, then doSWR's `return fresh`
ResumeCreator(r) ==
  /\ req[r].pc = "wait"
  /\ req[r].role = "creator"
  /\ Settled(req[r].waitOn)
  /\ Finish(req[r].waitOn)
  /\ LET out == Await(req[r].waitOn) IN
     req' = [req EXCEPT ![r] =
               [@ EXCEPT !.pc = IF out.kind = "value" THEN "done" ELSE "failed",
                         !.result = out]]
  /\ UNCHANGED <<clock, ttlMaxAge, ttlSWR, deferred, unhandled>>

\* MISS path, a request that was handed the inflight promise: its reaction
\* runs after the reaction of the revalidate that invoked the producer
ResumeJoiner(r) ==
  /\ req[r].pc = "wait"
  /\ req[r].role = "joiner"
  /\ Settled(req[r].waitOn)
  /\ inv[req[r].waitOn].creatorResumed
  /\ LET out == Await(req[r].waitOn) IN
     req' = [req EXCEPT ![r] =
               [@ EXCEPT !.pc = IF out.kind = "value" THEN "done" ELSE "failed",
                         !.result = out]]
  /\ UNCHANGED <<clock, ttlMaxAge, ttlSWR, cache, inflightDeduper, inv,
                 deferred, unhandled>>

\* the promise of a deferred revalidate settles: nothing awaits it and nothing
\* catches it, so a rejection is an unhandled rejection
TaskEnd(t, out) ==
  /\ deferred' = [deferred EXCEPT ![t].state =
                    IF out.kind = "value" THEN "done" ELSE "rejected"]
  /\ unhandled' = IF out.kind = "value" THEN unhandled ELSE unhandled \cup {t}

\* deferred revalidate that invoked the producer, from `await promise` on
ResumeCreatorTask(t) ==
  /\ deferred[t].state = "creator"
  /\ Settled(deferred[t].waitOn)
  /\ Finish(deferred[t].waitOn)
  /\ TaskEnd(t, Await(deferred[t].waitOn))
  /\ UNCHANGED <<clock, ttlMaxAge, ttlSWR, req>>

\* deferred revalidate that returned the inflight promise
ResumeJoinerTask(t) ==
  /\ deferred[t].state = "joiner"
  /\ Settled(deferred[t].waitOn)
  /\ inv[deferred[t].waitOn].creatorResumed
  /\ TaskEnd(t, Await(deferred[t].waitOn))
  /\ UNCHANGED <<clock, ttlMaxAge, ttlSWR, cache, inflightDeduper, inv, req>>

Next ==
  \/ Tick
  \/ \E r \in Reqs, c \in Calls : Call(r, c.ident, c.args)
  \/ \E r \in Reqs : ServeFresh(r)
  \/ \E r \in Reqs : ServeStale(r)
  \/ \E r \in Reqs : MissJoin(r)
  \/ \E r \in Reqs : MissCreate(r)
  \/ RunImmediateJoin
  \/ RunImmediateCreate
  \/ \E i \in 1..Len(inv) : Resolve(i)
  \/ \E i \in 1..Len(inv) : Reject(i)
  \/ \E r \in Reqs : ResumeCreator(r)
  \/ \E r \in Reqs : ResumeJoiner(r)
  \/ \E t \in 1..Len(deferred) : ResumeCreatorTask(t)
  \/ \E t \in 1..Len(deferred) : ResumeJoinerTask(t)

Spec == Init /\ [][Next]_vars

\* A process that has served requests before: the store already holds, for
\* two of the call targets, an entry that revalidate wrote at time 0 with the
\* result of an earlier producer call (result 0), and that call has released
\* its key.
WarmKeys ==
  { CacheKey(FirstCall.ident, FirstCall.args),
    CacheKey(<<"TestClassD", "testMethod">>, <<1>>) }
InitWarm ==
  /\ clock = 0
  /\ \E o \in TtlOpts : ttlMaxAge = Coalesce(o, DefaultTtlMaxAge)
  /\ \E o \in TtlOpts : ttlSWR = Coalesce(o, DefaultTtlSWR)
  /\ inv = << >>
  /\ cache = [k \in WarmKeys |->
                [value |-> Stringify([exp |-> ttlMaxAge * MsPerSec, item |-> 0]),
                 evictAt |-> (ttlMaxAge + ttlSWR) * MsPerSec]]
  /\ inflightDeduper = << >>
  /\ req = [r \in Reqs |-> IdleReq]
  /\ deferred = << >>
  /\ unhandled = {}
SpecWarm == InitWarm /\ [][Next]_vars

\* Producers that resolve to any of JsValues, in a data source constructed
\* with {ttlMaxAge: 1} and the default ttlSWR, so that entries are served
\* fresh at first and stale once a second has passed.
InitJson ==
  /\ clock = 0
  /\ ttlMaxAge = Coalesce(<<1>>, DefaultTtlMaxAge)
  /\ ttlSWR = Coalesce(Undefined, DefaultTtlSWR)
  /\ cache = << >>
  /\ inflightDeduper = << >>
  /\ inv = << >>
  /\ req = [r \in Reqs |-> IdleReq]
  /\ deferred = << >>
  /\ unhandled = {}
NextJson ==
  \/ Tick
  \/ \E r \in Reqs, c \in Calls : Call(r, c.ident, c.args)
  \/ \E r \in Reqs : ServeFresh(r)
  \/ \E r \in Reqs : ServeStale(r)
  \/ \E r \in Reqs : MissJoin(r)
  \/ \E r \in Reqs : MissCreate(r)
  \/ RunImmediateJoin
  \/ RunImmediateCreate
  \/ \E i \in 1..Len(inv), v \in JsValues : ResolveWith(i, v)
  \/ \E i \in 1..Len(inv) : Reject(i)
  \/ \E r \in Reqs : ResumeCreator(r)
  \/ \E r \in Reqs : ResumeJoiner(r)
  \/ \E t \in 1..Len(deferred) : ResumeCreatorTask(t)
  \/ \E t \in 1..Len(deferred) : ResumeJoinerTask(t)
SpecJson == InitJson /\ [][NextJson]_vars

\* The event loop runs every continuation whose promise has settled and every
\* queued setImmediate callback: the store's answer to a request, the
\* reactions to a settled producer promise, the deferred revalidations.
EventLoopFairness ==
  /\ \A r \in Reqs :
       /\ WF_vars(ServeFresh(r) \/ ServeStale(r) \/ MissJoin(r) \/ MissCreate(r))
       /\ WF_vars(ResumeCreator(r))
       /\ WF_vars(ResumeJoiner(r))
  /\ WF_vars(RunImmediateJoin \/ RunImmediateCreate)
  /\ \A t \in Reqs :
       /\ WF_vars(t <= Len(deferred) /\ ResumeCreatorTask(t))
       /\ WF_vars(t <= Len(deferred) /\ ResumeJoinerTask(t))

\* every producer invocation eventually settles
ProducersSettle ==
  \A i \in Reqs : WF_vars(i <= Len(inv) /\ (Resolve(i) \/ Reject(i)))

SpecFair == Spec /\ EventLoopFairness
SpecLive == Spec /\ EventLoopFairness /\ ProducersSettle

\* ------------------------------------------------------------ properties
Invs == 1..Len(inv)
Tasks == 1..Len(deferred)
Returned(r) == req[r].pc \in {"done", "failed"}
PendingFor(k) == {i \in Invs : inv[i].key = k /\ inv[i].state = "pending"}
Value(i) == [kind |-> "value", by |-> i]
Error(i) == [kind |-> "error", by |-> i]

\* C1: single-flight.  No step invokes the producer for a key that has an
\* unsettled invocation, whether the attempt comes from a MISS-path request or
\* from a deferred revalidate; and every MISS-path request that returns a
\* value returns the value of the one invocation it waited on, which is an
\* invocation for its own key, so concurrent requests for one uncached key
\* all return the same resolved value.
C1_SingleFlight ==
  /\ [][\A i \in 1..Len(inv') :
          i > Len(inv) => PendingFor(inv'[i].key) = {}]_vars
  /\ [](\A r \in Reqs :
          req[r].path = "miss" /\ req[r].pc = "done" =>
            /\ req[r].result = Value(req[r].waitOn)
            /\ inv[req[r].waitOn].key = req[r].key)

\* three requests for one uncached key were in flight together: one producer
\* invocation was made and all three returned its value
C1_Witness ==
  /\ Len(inv) = 1
  /\ \A r \in Reqs :
       /\ req[r].path = "miss"
       /\ req[r].pc = "done"
       /\ req[r].result = Value(1)
  /\ Cardinality({r \in Reqs : req[r].role = "joiner"}) = 2

\* C2: once the revalidate that registered an invocation has run past its
\* settlement, on success and on failure alike, the registry no longer holds
\* that invocation under its key.
C2_ReleasedOnBothOutcomes ==
  \A i \in Invs :
    inv[i].creatorResumed =>
      ~(HasInflight(inv[i].key) /\ Inflight(inv[i].key) = i)

\* C3: a failure of a deferred revalidation is caught inside the deferred
\* task: no deferred task ever ends in an unhandled rejection.
C3_DeferredFailureCaught == unhandled = {}

\* C4: a request that finds a stale entry returns the stored value without
\* ever waiting on a producer invocation; every deferred task belongs to a
\* request that has already returned, and every producer invocation made by a
\* deferred task was made after its request returned.
C4_StaleServedWithoutWaiting ==
  /\ \A r \in Reqs :
       req[r].path = "stale" =>
         /\ req[r].pc = "done"
         /\ req[r].waitOn = 0
         /\ req[r].result = Value(Parse(req[r].cached).item)
  /\ \A t \in Tasks : req[deferred[t].req].pc = "done"
  /\ \A i \in Invs : inv[i].byDeferred => inv[i].originReturned

\* a stale request has returned the stored value while the producer
\* invocation its deferred revalidation made is still unsettled
C4_Witness ==
  \E r \in Reqs, i \in Invs :
    /\ req[r].path = "stale"
    /\ req[r].pc = "done"
    /\ req[r].result.by # i
    /\ inv[i].byDeferred
    /\ inv[i].origin = r
    /\ inv[i].state = "pending"

\* C5: the step of a request that found an entry and finds it fresh
\* (Date.now() < item.exp) returns the stored value, invokes no producer and
\* schedules no deferred revalidation, so the invocation count stays as it was.
C5_FreshServedOnly ==
  [][\A r \in Reqs :
       ( /\ req[r].pc = "get"
         /\ req[r].cached # Undefined
         /\ Now < Parse(req[r].cached).exp
         /\ req'[r] # req[r] ) =>
       ( /\ req'[r].pc = "done"
         /\ req'[r].result = Value(Parse(req[r].cached).item)
         /\ inv' = inv
         /\ deferred' = deferred
         /\ inflightDeduper' = inflightDeduper
         /\ cache' = cache )]_vars

\* a first call populated the cache and two further calls with the same
\* identity and arguments were served fresh: the producer was invoked once
C5_Witness ==
  /\ Len(inv) = 1
  /\ deferred = << >>
  /\ req[1].path = "miss" /\ req[1].pc = "done"
  /\ \A r \in Reqs \ {1} :
       /\ req[r].path = "fresh"
       /\ req[r].pc = "done"
       /\ req[r].key = req[1].key
       /\ req[r].result = req[1].result

\* C6: a request whose store read came at or after the hard expiry of the
\* entry last written under its key (item.exp plus ttlSWR seconds) is not
\* served that entry: it takes the MISS path, and when it returns a value it
\* is the value of the invocation it waited on, not the expired one.
C6_ExpiredNeverServed ==
  \A r \in Reqs :
    req[r].expired # Undefined /\ req[r].pc \notin {"idle", "get"} =>
      /\ req[r].path = "miss"
      /\ req[r].pc = "done" =>
           /\ req[r].result = Value(req[r].waitOn)
           /\ req[r].result.by # Parse(req[r].expired).item

\* a request that arrived after the hard expiry of a stored entry invoked the
\* producer itself and returned the new value
C6_Witness ==
  \E r \in Reqs :
    /\ req[r].expired # Undefined
    /\ req[r].path = "miss"
    /\ req[r].role = "creator"
    /\ req[r].pc = "done"
    /\ req[r].result.by > Parse(req[r].expired).item

\* C7: isolation by identity.  The invocation a request waits on, and the
\* invocation that produced the value a request returns (read from the store
\* or awaited), were made with the producer of the request's own identity.
C7_IdentityIsolation ==
  \A r \in Reqs :
    /\ req[r].waitOn # 0 => inv[req[r].waitOn].ident = req[r].ident
    /\ req[r].result.kind = "value" =>
         inv[req[r].result.by].ident = req[r].ident

\* three requests with pairwise different identities and the same arguments:
\* the first returned the value of its own invocation, which is in the store,
\* and the other two each wait on an invocation of their own
C7_Witness ==
  /\ \A r, q \in Reqs :
       r # q => req[r].ident # req[q].ident /\ req[r].args = req[q].args
  /\ req[1].pc = "done" /\ req[1].result = Value(1)
  /\ CacheGet(req[1].key) # Undefined
  /\ \A r \in Reqs \ {1} :
       /\ req[r].pc = "wait"
       /\ req[r].role = "creator"
       /\ inv[req[r].waitOn].state = "pending"

\* C8: on the MISS path, a request whose awaited invocation rejected (one it
\* made or one it joined) ends with that invocation's error, never a value.
C8_MissFailureSurfaced ==
  \A r \in Reqs :
    ( /\ req[r].path = "miss"
      /\ Returned(r)
      /\ inv[req[r].waitOn].state = "rejected" ) =>
    ( /\ req[r].pc = "failed"
      /\ req[r].result = Error(req[r].waitOn) )

\* the producer rejected with a creator and two joiners waiting: all three
\* requests ended with the error
C8_Witness ==
  /\ Len(inv) = 1
  /\ \A r \in Reqs : req[r].pc = "failed" /\ req[r].result = Error(1)
  /\ Cardinality({r \in Reqs : req[r].role = "joiner"}) = 2

\* C9: in every reachable state each cache key has at most one unsettled
\* producer invocation.
C9_OnePendingPerKey ==
  \A i, j \in Invs :
    ( /\ inv[i].key = inv[j].key
      /\ inv[i].state = "pending"
      /\ inv[j].state = "pending" ) => i = j

\* a second invocation for a key is pending, registered and joined by a
\* waiting request, after an earlier invocation for the key was released
C9_Witness ==
  \E i, j \in Invs, r \in Reqs :
    /\ i < j
    /\ inv[i].key = inv[j].key
    /\ inv[i].creatorResumed
    /\ inv[j].state = "pending"
    /\ req[r].pc = "wait" /\ req[r].role = "joiner" /\ req[r].waitOn = j

\* C10: a producer failure does not wedge its key: no request called after an
\* invocation had rejected ends with that invocation's error.
C10_FailureDoesNotWedge ==
  \A r \in Reqs :
    req[r].result.kind = "error" => req[r].result.by \notin req[r].rejectedAtCall

\* C11: failures are never cached.  The step in which a revalidate resumes
\* from a rejected producer promise, on the MISS path or in a deferred task,
\* leaves the store as it was; and every item in the store is the result of
\* an invocation that resolved.
C11_FailuresNeverCached ==
  /\ [][\A i \in Invs :
          ( /\ inv[i].state = "rejected"
            /\ ~inv[i].creatorResumed
            /\ inv'[i].creatorResumed ) => cache' = cache]_vars
  /\ [](\A k \in DOMAIN cache :
          inv[Parse(cache[k].value).item].state = "resolved")

\* a deferred revalidation failed and was resumed while the store held a
\* stale entry for its key: the entry still carries the earlier value
C11_Witness ==
  \E i, j \in Invs :
    /\ i < j
    /\ inv[i].key = inv[j].key
    /\ inv[j].byDeferred
    /\ inv[j].state = "rejected"
    /\ inv[j].creatorResumed
    /\ CacheGet(inv[j].key) # Undefined
    /\ Parse(CacheGet(inv[j].key)).item = i

\* C12: the revalidate that resumes from a resolved producer promise writes
\* the new result under the key with a renewed window (item.exp = now +
\* ttlMaxAge, store ttl = ttlMaxAge + ttlSWR); under the event loop's
\* fairness, once the invocation a deferred revalidation made or joined has
\* resolved, that write eventually happens (a started revalidation only
\* leaves its state by finishing, so this is stated as: again and again no
\* started revalidation of a resolved invocation is unfinished, and a
\* finished one has its write behind it); and a request served fresh from
\* an entry returns that entry's value and invokes no producer.
C12_StaleRevalidated ==
  /\ [][\A i \in Invs :
          ( /\ inv[i].state = "resolved"
            /\ ~inv[i].creatorResumed
            /\ inv'[i].creatorResumed ) =>
          ( /\ inv[i].key \in DOMAIN cache'
            /\ Parse(cache'[inv[i].key].value).exp = Now + ttlMaxAge * MsPerSec
            /\ Parse(cache'[inv[i].key].value).item = i
            /\ cache'[inv[i].key].evictAt =
                 Now + (ttlMaxAge + ttlSWR) * MsPerSec )]_vars
  /\ []<>(\A t \in Tasks :
            ~( /\ deferred[t].state \in {"creator", "joiner"}
               /\ inv[deferred[t].waitOn].state = "resolved" ))
  /\ [](\A t \in Tasks :
          deferred[t].state = "done" =>
            /\ inv[deferred[t].waitOn].state = "resolved"
            /\ inv[deferred[t].waitOn].creatorResumed)
  /\ [](\A r \in Reqs :
          req[r].path = "fresh" =>
            /\ req[r].result = Value(Parse(req[r].cached).item)
            /\ \A i \in Invs : inv[i].origin # r)

\* a request was served the stale value, its deferred revalidation produced a
\* new one, and the next request was served the new value fresh: two producer
\* invocations for three requests
C12_Witness ==
  /\ Len(inv) = 2
  /\ req[2].path = "stale" /\ req[2].result = Value(1)
  /\ Len(deferred) = 1
  /\ deferred[1].req = 2 /\ deferred[1].state = "done"
  /\ inv[2].byDeferred /\ inv[2].origin = 2
  /\ req[3].path = "fresh" /\ req[3].result = Value(2)
  /\ req[3].key = req[2].key

\* C13: requests with the same identity use the same cache key exactly when
\* their argument lists are equal; the invocation a request waits on, and the
\* one that produced the value it returns, were called with the request's
\* own arguments; and a request that invoked the producer on its MISS waits
\* on its own invocation.
C13_ArgumentIsolation ==
  /\ \A r, q \in Reqs :
       ( /\ req[r].pc # "idle" /\ req[q].pc # "idle"
         /\ req[r].ident = req[q].ident ) =>
       ( req[r].args = req[q].args <=> req[r].key = req[q].key )
  /\ \A r \in Reqs :
       /\ req[r].waitOn # 0 => inv[req[r].waitOn].args = req[r].args
       /\ req[r].result.kind = "value" =>
            inv[req[r].result.by].args = req[r].args
       /\ req[r].role = "creator" => inv[req[r].waitOn].origin = r

\* two requests with one identity and different arguments each invoked the
\* producer and returned their own value; a third, with the arguments of the
\* first, was served the first one's value from the store
C13_Witness ==
  \E r, q, p \in Reqs :
    /\ req[r].ident = req[q].ident /\ req[r].ident = req[p].ident
    /\ req[r].args # req[q].args
    /\ req[r].role = "creator" /\ req[r].pc = "done"
    /\ req[q].role = "creator" /\ req[q].pc = "done"
    /\ req[r].result # req[q].result
    /\ p # r
    /\ req[p].args = req[r].args
    /\ req[p].path \in {"fresh", "stale"}
    /\ req[p].result = req[r].result
    /\ Len(inv) = 2

\* C14: the freshness boundary is half-open.  The step of a request that
\* found an entry and runs at Date.now() >= item.exp, equality included,
\* returns the stored value and enqueues one deferred revalidation for its
\* key; and with ttlMaxAge = 0, the default, no request is ever served fresh:
\* every request that found an entry was served stale and scheduled a
\* revalidation.
C14_HalfOpenBoundary ==
  /\ [][\A r \in Reqs :
          ( /\ req[r].pc = "get"
            /\ req[r].cached # Undefined
            /\ Now >= Parse(req[r].cached).exp
            /\ req'[r] # req[r] ) =>
          ( /\ req'[r].pc = "done"
            /\ req'[r].path = "stale"
            /\ req'[r].result = Value(Parse(req[r].cached).item)
            /\ Len(deferred') = Len(deferred) + 1
            /\ deferred'[Len(deferred')].req = r
            /\ deferred'[Len(deferred')].key = req[r].key
            /\ deferred'[Len(deferred')].state = "queued" )]_vars
  /\ [](ttlMaxAge = DefaultTtlMaxAge =>
          \A r \in Reqs :
            /\ req[r].path # "fresh"
            /\ (Returned(r) /\ req[r].cached # Undefined) =>
                 /\ req[r].path = "stale"
                 /\ \E t \in Tasks : deferred[t].req = r)

\* with a fresh window of one second, a request handled exactly at item.exp
\* was served stale and its revalidation is queued
C14_Witness ==
  \E r \in Reqs :
    /\ ttlMaxAge > 0
    /\ req[r].path = "stale"
    /\ req[r].pc = "done"
    /\ Parse(req[r].cached).exp = Now
    /\ \E t \in Tasks : deferred[t].req = r /\ deferred[t].state = "queued"

\* C15: every write to the store, made at time t when revalidate resumes
\* from the settled producer, stores exp = t + ttlMaxAge and a store ttl
\* ending at t + ttlMaxAge + ttlSWR (both in milliseconds); hence for every
\* stored entry exp <= hard expiry and hard expiry - exp is the configured
\* stale window, for every non-negative ttlMaxAge and ttlSWR.
C15_EntryTimes ==
  /\ [][\A k \in DOMAIN cache' :
          (k \notin DOMAIN cache \/ cache'[k] # cache[k]) =>
            /\ Parse(cache'[k].value).exp = Now + ttlMaxAge * MsPerSec
            /\ cache'[k].evictAt = Now + (ttlMaxAge + ttlSWR) * MsPerSec]_vars
  /\ [](\A k \in DOMAIN cache :
          /\ Parse(cache[k].value).exp <= cache[k].evictAt
          /\ cache[k].evictAt - Parse(cache[k].value).exp = ttlSWR * MsPerSec
          /\ Parse(cache[k].value).exp - ttlMaxAge * MsPerSec <= Now)

\* an entry written at a time later than 0 with a fresh window and a stale
\* window that are both positive
C15_Witness ==
  \E k \in DOMAIN cache :
    /\ ttlMaxAge > 0
    /\ ttlSWR > 0
    /\ Parse(cache[k].value).exp > ttlMaxAge * MsPerSec
    /\ Parse(cache[k].value).exp < cache[k].evictAt

\* C16: there is no timeout.  For as long as a producer invocation for key k
\* has not settled, however much time passes, k stays registered to that
\* invocation, a request for k that takes the MISS path is handed that
\* invocation and starts no other, and no MISS-path request waiting on it has
\* returned.
C16_NoTimeout ==
  /\ [](\A i \in Invs : inv[i].state = "pending" =>
          /\ HasInflight(inv[i].key)
          /\ Inflight(inv[i].key) = i
          /\ \A r \in Reqs :
               (req[r].path = "miss" /\ req[r].waitOn = i) => req[r].pc = "wait")
  /\ [][\A r \in Reqs : \A i \in Invs :
          ( /\ inv[i].state = "pending"
            /\ req[r].pc = "get"
            /\ req[r].key = inv[i].key
            /\ req[r].cached = Undefined
            /\ req'[r] # req[r] ) =>
          ( /\ inv' = inv
            /\ req'[r].pc = "wait"
            /\ req'[r].waitOn = i )]_vars

\* all the time of the run has passed, an invocation is still pending and
\* registered, and two MISS-path requests for its key are waiting on it
C16_Witness ==
  \E i \in Invs : \E r, q \in Reqs :
    /\ clock = MaxTick
    /\ inv[i].state = "pending"
    /\ r # q
    /\ req[r].pc = "wait" /\ req[r].role = "creator" /\ req[r].waitOn = i
    /\ req[q].pc = "wait" /\ req[q].role = "joiner" /\ req[q].waitOn = i

\* C17: termination.  When the event loop runs every enabled continuation
\* and every producer invocation eventually settles, each call of doSWR that
\* has been made eventually returns (a request only leaves its call by
\* returning, so this is stated as: again and again no call is in progress);
\* a returned request carries a value (a
\* hit, or a miss whose producer resolved) or the error of a miss whose
\* producer rejected.
C17_EveryRequestReturns ==
  /\ []<>(\A r \in Reqs : req[r].pc \in {"idle", "done", "failed"})
  /\ [](\A r \in Reqs :
          /\ req[r].pc = "done" =>
               /\ req[r].result.kind = "value"
               /\ req[r].path = "miss" => inv[req[r].waitOn].state = "resolved"
          /\ req[r].pc = "failed" =>
               /\ req[r].result.kind = "error"
               /\ req[r].path = "miss"
               /\ inv[req[r].waitOn].state = "rejected")

\* every request has returned: one with the error of a rejected producer,
\* one with the value of a miss, one with a stale hit
C17_Witness ==
  /\ \A r \in Reqs : Returned(r)
  /\ \E r \in Reqs : req[r].pc = "failed"
  /\ \E r \in Reqs : req[r].pc = "done" /\ req[r].path = "miss"
  /\ \E r \in Reqs : req[r].pc = "done" /\ req[r].path = "stale"

\* C18 as stated: no step invokes the producer for a key while the store
\* holds an entry for that key that is still fresh (Date.now() < item.exp).
C18_NeverInvokedWhileFresh ==
  [][Len(inv') > Len(inv) =>
       LET k == inv'[Len(inv')].key IN
       ~(CacheGet(k) # Undefined /\ ~IsStale(Parse(CacheGet(k))))]_vars

\* C18 amended: the producer is invoked only on behalf of a request whose own
\* store read found no entry, or of a request that found an entry with
\* Date.now() >= item.exp when it was handled and scheduled the revalidation
\* that invokes; a request served fresh schedules nothing and invokes
\* nothing.  Neither path reads the store again before invoking.
C18_InvokedOnlyForMissOrStale ==
  /\ [][Len(deferred') > Len(deferred) =>
          LET r == deferred'[Len(deferred')].req IN
          /\ req[r].cached # Undefined
          /\ Now >= Parse(req[r].cached).exp
          /\ req'[r].path = "stale"]_vars
  /\ [][Len(inv') > Len(inv) =>
          LET n == inv'[Len(inv')]
              r == n.origin
          IN  IF n.byDeferred
              THEN /\ req[r].path = "stale"
                   /\ \E t \in Tasks :
                        /\ deferred[t].req = r
                        /\ deferred[t].state = "queued"
                        /\ deferred'[t].state = "creator"
              ELSE /\ req[r].pc = "get"
                   /\ req[r].cached = Undefined
                   /\ req'[r].path = "miss"]_vars
  /\ [](\A r \in Reqs : req[r].path = "fresh" =>
          /\ \A i \in Invs : inv[i].origin # r
          /\ \A t \in Tasks : deferred[t].req # r)

\* a deferred revalidation invoked the producer after an earlier invocation
\* for the same key had been saved, and that saved entry is still fresh
C18_Witness ==
  \E i, j \in Invs :
    /\ i < j
    /\ inv[i].key = inv[j].key
    /\ inv[j].byDeferred
    /\ inv[j].state = "pending"
    /\ CacheGet(inv[j].key) # Undefined
    /\ Parse(CacheGet(inv[j].key)).item = i
    /\ ~IsStale(Parse(CacheGet(inv[j].key)))

C20_DeferredFifo ==
  /\ [](\A t, u \in Tasks :
          (t < u /\ deferred[u].state # "queued") => deferred[t].state # "queued")
  /\ [][\A t \in Tasks :
          (deferred[t].state = "queued" /\ deferred'[t].state # "queued") =>
            \A u \in 1..(t - 1) : deferred[u].state # "queued"]_vars

\* three stale requests scheduled revalidations for key a, key b and key a
\* again: the first has started, the two scheduled after it are still queued
C20_Witness ==
  /\ Len(deferred) = 3
  /\ deferred[1].key # deferred[2].key
  /\ deferred[1].key = deferred[3].key
  /\ deferred[1].state \in {"creator", "joiner"}
  /\ deferred[2].state = "queued"
  /\ deferred[3].state = "queued"

\* C21: store provenance.  A step that writes the store writes one key, and
\* the entry it writes carries the result of a resolved producer invocation
\* registered under that key, in the step in which the revalidate that made
\* the invocation resumes; that revalidate resumes once and, when the
\* invocation resolved, writes then, so each successful invocation is written
\* exactly once; a request or deferred task that joined the operation writes
\* nothing; and the revalidate of a resolved invocation does resume (again
\* and again no resolved invocation is left unwritten).
C21_StoreProvenance ==
  /\ [][cache' # cache =>
          \E i \in Invs :
            /\ inv[i].state = "resolved"
            /\ ~inv[i].creatorResumed
            /\ inv'[i].creatorResumed
            /\ inv[i].key \in DOMAIN cache'
            /\ Parse(cache'[inv[i].key].value).item = i
            /\ \A k \in DOMAIN cache' :
                 k # inv[i].key => (k \in DOMAIN cache /\ cache'[k] = cache[k])
            /\ \/ \E r \in Reqs :
                    /\ req[r].pc = "wait" /\ req[r].role = "creator"
                    /\ req[r].waitOn = i /\ req'[r].pc = "done"
               \/ \E t \in Tasks :
                    /\ deferred[t].state = "creator"
                    /\ deferred[t].waitOn = i /\ deferred'[t].state = "done"]_vars
  /\ [][\A i \in Invs :
          /\ inv[i].creatorResumed => inv'[i].creatorResumed
          /\ (inv[i].state = "resolved" /\ ~inv[i].creatorResumed
                /\ inv'[i].creatorResumed) => cache' # cache]_vars
  /\ [][\A r \in Reqs :
          (req[r].pc = "wait" /\ req[r].role = "joiner" /\ req'[r] # req[r])
            => cache' = cache]_vars
  /\ [][\A t \in Tasks :
          (deferred[t].state = "joiner" /\ deferred'[t] # deferred[t])
            => cache' = cache]_vars
  /\ []<>(\A i \in Invs : inv[i].state = "resolved" => inv[i].creatorResumed)

\* a deferred revalidation invoked the producer, a MISS-path request joined
\* it and has returned its value, and the store holds that invocation's result
C21_Witness ==
  \E i \in Invs : \E r \in Reqs :
    /\ inv[i].byDeferred
    /\ inv[i].state = "resolved"
    /\ inv[i].creatorResumed
    /\ req[r].role = "joiner" /\ req[r].waitOn = i /\ req[r].pc = "done"
    /\ inv[i].key \in DOMAIN cache
    /\ Parse(cache[inv[i].key].value).item = i

\* C22 as stated: a request that found an entry, fresh or stale, returns the
\* item of the entry it read, and the value it returns is the value the
\* producer resolved to, unchanged by the save and the load.
C22_HitReturnsProducerResult ==
  \A r \in Reqs :
    (req[r].pc = "done" /\ req[r].path \in {"fresh", "stale"}) =>
      /\ req[r].result = Value(Parse(req[r].cached).item)
      /\ Parse(req[r].cached).value = ResultValue(Parse(req[r].cached).item)

\* C22 amended: a request's store read gives the string written last under
\* its key, and a request that found an entry returns the item of that
\* string; the value it returns is the producer's result after
\* JSON.stringify and JSON.parse: a string or a finite number comes back
\* unchanged, NaN comes back as null and a Date as the string of its toJSON().
C22_HitReturnsJsonOfProducerResult ==
  /\ [][\A r \in Reqs :
          (req[r].pc = "idle" /\ req'[r].pc = "get") =>
            req'[r].cached =
              IF req'[r].key \in DOMAIN cache /\ Now < cache[req'[r].key].evictAt
              THEN cache[req'[r].key].value ELSE Undefined]_vars
  /\ [](\A r \in Reqs :
          (req[r].pc = "done" /\ req[r].path \in {"fresh", "stale"}) =>
            LET item == Parse(req[r].cached)
                produced == ResultValue(item.item)
            IN  /\ req[r].result = Value(item.item)
                /\ inv[item.item].state = "resolved"
                /\ inv[item.item].key = req[r].key
                /\ produced.t = "string" => item.value = produced
                /\ (produced.t = "number" /\ produced.v # "NaN") =>
                     item.value = produced
                /\ (produced.t = "number" /\ produced.v = "NaN") =>
                     item.value = [t |-> "null", v |-> ""]
                /\ produced.t = "Date" =>
                     item.value = [t |-> "string", v |-> produced.v])

\* one request was served fresh a number that came back unchanged, another
\* was served stale a NaN that came back as null
C22_Witness ==
  \E r, q \in Reqs :
    /\ req[r].pc = "done" /\ req[r].path = "fresh"
    /\ ResultValue(Parse(req[r].cached).item) = [t |-> "number", v |-> "2"]
    /\ Parse(req[r].cached).value = [t |-> "number", v |-> "2"]
    /\ req[q].pc = "done" /\ req[q].path = "stale"
    /\ ResultValue(Parse(req[q].cached).item) = [t |-> "number", v |-> "NaN"]
    /\ Parse(req[q].cached).value.t = "null"

\* C23: serving a hit changes no shared state.  Every step of a request that
\* found an entry, the store read included, leaves the store, the inflight
\* registry and the producer invocations as they are; the step that serves a
\* fresh entry also leaves the deferred queue as it is, and the step that
\* serves a stale entry returns in that same step and only appends one task
\* for the request's key to the deferred queue.
C23_HitChangesNothingShared ==
  [][\A r \in Reqs :
       (req'[r] # req[r] /\ req'[r].cached # Undefined) =>
         /\ cache' = cache
         /\ inflightDeduper' = inflightDeduper
         /\ inv' = inv
         /\ req'[r].path \in {"none", "fresh"} => deferred' = deferred
         /\ req'[r].path = "stale" =>
              /\ req'[r].pc = "done"
              /\ deferred' = Append(deferred,
                   [req |-> r, key |-> req[r].key, ident |-> req[r].ident,
                    args |-> req[r].args, state |-> "queued", waitOn |-> 0])
         /\ req'[r].path # "miss"]_vars

\* a request served fresh and a request served stale have both returned and
\* the store still holds, for each, the very string it read, while the stale
\* request's revalidation is still queued
C23_Witness ==
  \E r, q \in Reqs : \E t \in Tasks :
    /\ req[r].pc = "done" /\ req[r].path = "fresh"
    /\ req[r].key \in DOMAIN cache /\ cache[req[r].key].value = req[r].cached
    /\ req[q].pc = "done" /\ req[q].path = "stale"
    /\ req[q].key \in DOMAIN cache /\ cache[req[q].key].value = req[q].cached
    /\ deferred[t].req = q /\ deferred[t].state = "queued"

\* C24: store writes for a key follow the order of the producer invocations:
\* a step that replaces the entry stored under a key replaces it by the
\* result of a later invocation for that key than the one it held, and no
\* invocation for the key made before the stored one is still to be written.
C24_WritesInInvocationOrder ==
  /\ [][\A k \in DOMAIN cache :
          cache'[k] # cache[k] =>
            /\ Parse(cache'[k].value).item > Parse(cache[k].value).item
            /\ inv[Parse(cache'[k].value).item].key = k]_vars
  /\ [](\A k \in DOMAIN cache : \A i \in Invs :
          (inv[i].key = k /\ i < Parse(cache[k].value).item) =>
            (inv[i].creatorResumed /\ inv[i].state = "resolved"))

\* the store holds the result of the third invocation for a key, written over
\* the results of the first and the second
C24_Witness ==
  \E k \in DOMAIN cache :
    /\ Parse(cache[k].value).item = 3
    /\ \A i \in 1..2 : inv[i].key = k /\ inv[i].creatorResumed
=============================================================================
